---- MODULE Spec2Model ----
(***************************************************************************)
(* Model of elastictools.indextools.IndexTool: a facade over the index     *)
(* API of a search service.  The state is the service's set of indices     *)
(* plus the position and locals of one caller inside one IndexTool method. *)
(* Every request to the service is one step; a request may be refused      *)
(* (transport failure), in which case the service state is left as it was. *)
(***************************************************************************)
EXTENDS Integers, Sequences, FiniteSets, TLC

VARIABLES
    indices,    \* the service: index name -> [mappings, settings, docs]
    pc,         \* position of the caller inside the running method
    call,       \* the method being run and its arguments
    mapping,    \* local/argument `mapping` of the running method
    settings,   \* local/argument `settings` of the running method
    result,     \* value returned or error raised by the method
    reqs,       \* write requests (delete, create, reindex) sent by the method
    pre         \* the service state when the method was entered

vars == <<indices, pc, call, mapping, settings, result, reqs, pre>>

---------------------------------------------------------------------------
(* Bounds *)

MaxDocs == 1
SizeLimit == 1

---------------------------------------------------------------------------
(* Python values *)

PyNone == [kind |-> "None"]
PyDict(d) == [kind |-> "dict", val |-> d]
PyInt(n) == [kind |-> "int", val |-> n]
PyBool(b) == [kind |-> "bool", val |-> b]
PyStr(s) == [kind |-> "str", val |-> s]
PyError(e) == [kind |-> "error", val |-> e]
Pending == [kind |-> "pending"]
EmptyDict == << >>

\* Python truth value, as tested by `if x:` / `if not x:`
Truthy(v) ==
    CASE v.kind = "None" -> FALSE
      [] v.kind = "dict" -> DOMAIN v.val # {}
      [] v.kind = "int" -> v.val # 0
      [] v.kind = "bool" -> v.val
      [] v.kind = "str" -> v.val # ""
      [] OTHER -> TRUE

\* dict.pop(key, None)
Pop(d, key) == [k \in DOMAIN d \ {key} |-> d[k]]

---------------------------------------------------------------------------
(* Universe of the model *)

IndexNames == {"a", "b"}
MetaKeys == {"creation_date", "version", "uuid", "provided_name"}
UserKeys == {"number_of_shards"}
DocTypes == {"doc", "item", "row"}
Schemas == {"f_text", "f_keyword"}

MetaValue == [a |-> "meta-a", b |-> "meta-b"]
FreshMeta == "meta-new"
InitShards == [a |-> "3", b |-> "1"]
InitMapping == [a |-> [doc |-> "f_text"], b |-> [item |-> "f_keyword"]]

\* settings of an index that exists before the call: the service-assigned
\* keys in ms, the user keys in us
InitSettings(n, ms, us) ==
    [index |-> [k \in ms \cup us |-> IF k \in MetaKeys THEN MetaValue[n] ELSE InitShards[n]]]

InitIndex(n, ms, us, d) ==
    [mappings |-> InitMapping[n], settings |-> InitSettings(n, ms, us), docs |-> 1..d]

\* the states index n can be in before the call, metadata drawn from family
InitIndexStates(n, family, users) ==
    {InitIndex(n, ms, us, d) : ms \in family, us \in users, d \in 0..MaxDocs}

InitServers(family, users) ==
    UNION {{f \in [S -> UNION {InitIndexStates(n, family, users) : n \in S}] :
               \A n \in S : f[n] \in InitIndexStates(n, family, users)} : S \in SUBSET IndexNames}

MainMeta == {MetaKeys, {"creation_date", "uuid"}}
MainUsers == {UserKeys}

ArgMapping == [row |-> "f_keyword"]
ArgSettings == [index |-> [number_of_shards |-> "5"]]
ArgScript == [source |-> "ctx._source.n++"]
ArgBody == [settings |-> PyDict([index |-> [number_of_shards |-> "7"]]),
            mappings |-> PyDict([doc |-> "f_keyword"])]

MappingArgs == {PyNone, PyDict(EmptyDict), PyDict(ArgMapping)}
SettingsArgs == {PyNone, PyDict(EmptyDict), PyDict(ArgSettings)}
SizeArgs == {PyNone, PyInt(0), PyInt(SizeLimit)}
ScriptArgs == {PyNone, PyDict(EmptyDict), PyDict(ArgScript)}
OverwriteArgs == {PyNone, PyBool(FALSE), PyBool(TRUE)}
BodyArgs == {PyNone, PyDict(ArgBody)}
DocTypeArgs == {PyNone} \cup {PyStr(t) : t \in DocTypes}
DoctypeMappings == UNION {[S -> Schemas] : S \in SUBSET DocTypes}
Accessors == {"get_info", "get_mapping", "get_settings", "stats"}

NoCall ==
    [op |-> "none", index_name |-> "-", src_index |-> "-", dest_index |-> "-",
     body |-> PyNone, mapping |-> PyNone, settings |-> PyNone, size |-> PyNone,
     script |-> PyNone, overwrite |-> PyNone, doc_type |-> PyNone]

---------------------------------------------------------------------------
(* The service behind self._es *)

Exists(idx, name) == name \in DOMAIN idx

ServerDelete(idx, name) == [k \in DOMAIN idx \ {name} |-> idx[k]]

\* the index the service builds for a create request: the mapping and the
\* user settings of the body, newly assigned metadata, no documents
FreshIndex(name, body) ==
    LET b == body.val
        m == IF "mappings" \in DOMAIN b /\ b.mappings.kind = "dict" THEN b.mappings.val ELSE EmptyDict
        s == IF "settings" \in DOMAIN b /\ b.settings.kind = "dict" THEN b.settings.val ELSE EmptyDict
        sub == IF "index" \in DOMAIN s THEN s["index"] ELSE EmptyDict
    IN [mappings |-> m,
        settings |-> [index |-> [k \in DOMAIN sub \cup MetaKeys |->
                                    IF k \in MetaKeys THEN FreshMeta ELSE sub[k]]],
        docs |-> {}]

ServerCreate(idx, name, body) ==
    [k \in DOMAIN idx \cup {name} |-> IF k = name THEN FreshIndex(name, body) ELSE idx[k]]

\* the documents a reindex request copies: all of the source's, or the
\* first `size` of them
ServerReindex(idx, body) ==
    LET s == body["source"].index
        d == body["dest"].index
        copied == IF "size" \in DOMAIN body
                  THEN {x \in idx[s].docs : x <= body["size"].val}
                  ELSE idx[s].docs
    IN [idx EXCEPT ![d].docs = @ \cup copied]

---------------------------------------------------------------------------
(* Pure helpers of IndexTool *)

SetDoctype_NoPop(m, t) ==
    IF Cardinality(DOMAIN m) # 1
    THEN [error |-> TRUE, mapping |-> m]
    ELSE LET key == CHOOSE k \in DOMAIN m : TRUE
         IN IF key = t
            THEN [error |-> FALSE, mapping |-> m]
            ELSE [error |-> FALSE,
                  mapping |-> [k \in DOMAIN m \cup {t} |-> IF k = t THEN m[key] ELSE m[k]]]

SetDoctype(m, t) ==
    IF Cardinality(DOMAIN m) # 1
    THEN [error |-> TRUE, mapping |-> m]
    ELSE LET key == CHOOSE k \in DOMAIN m : TRUE
         IN IF key = t
            THEN [error |-> FALSE, mapping |-> m]
            ELSE LET bound == [k \in DOMAIN m \cup {t} |-> IF k = t THEN m[key] ELSE m[k]]
                 IN [error |-> FALSE, mapping |-> Pop(bound, key)]

SanitizeSettings_KeepsVersion(s) ==
    [s EXCEPT !["index"] = Pop(Pop(Pop(@, "creation_date"), "uuid"), "provided_name")]

SanitizeSettings(s) ==
    [s EXCEPT !["index"] =
        Pop(Pop(Pop(Pop(@, "creation_date"), "version"), "uuid"), "provided_name")]

CreateBody_DropsMapping(body, m, s) ==
    IF Truthy(body) THEN body ELSE PyDict([settings |-> s, mappings |-> PyNone])

CreateBody(body, m, s) ==
    IF Truthy(body) THEN body ELSE PyDict([settings |-> s, mappings |-> m])

CreateDecision_NoneOnly(exists, overwrite) ==
    IF exists
    THEN IF overwrite = PyNone THEN "raise" ELSE "delete"
    ELSE "create"

\* what create does after its existence check
CreateDecision(exists, overwrite) ==
    IF exists
    THEN IF ~Truthy(overwrite) THEN "raise" ELSE "delete"
    ELSE "create"

ReindexBody_Swapped(src, dst, size, script) ==
    LET keys == {"source", "dest"}
                  \cup (IF Truthy(size) THEN {"size"} ELSE {})
                  \cup (IF Truthy(script) THEN {"script"} ELSE {})
    IN [k \in keys |-> CASE k = "source" -> [index |-> dst]
                         [] k = "dest" -> [index |-> src]
                         [] k = "size" -> size
                         [] k = "script" -> script]

ReindexBody(src, dst, size, script) ==
    LET keys == {"source", "dest"}
                  \cup (IF Truthy(size) THEN {"size"} ELSE {})
                  \cup (IF Truthy(script) THEN {"script"} ELSE {})
    IN [k \in keys |-> CASE k = "source" -> [index |-> src]
                         [] k = "dest" -> [index |-> dst]
                         [] k = "size" -> size
                         [] k = "script" -> script]

SrcMissing_NoCheck(idx, name) == FALSE

\* clone: `if not self.exists(src_index)`
SrcMissing(idx, name) == ~Exists(idx, name)

AccessorAbsent_NoCheck(idx, name) == FALSE

\* accessors: `if not self.exists(index_name)`
AccessorAbsent(idx, name) == ~Exists(idx, name)

CloneCreateTarget_Src(src, dst) == src

\* the index clone hands to create
CloneCreateTarget(src, dst) == dst

AccessorFetch(op, rec) ==
    CASE op = "get_info" -> PyDict([mappings |-> rec.mappings, settings |-> rec.settings])
      [] op = "get_mapping" -> PyDict(rec.mappings)
      [] op = "get_settings" -> PyDict(rec.settings)
      [] op = "stats" -> PyDict([docs |-> [count |-> Cardinality(rec.docs)]])

---------------------------------------------------------------------------
(* Control flow shared by the methods *)

Raise(e) == pc' = "done" /\ result' = PyError(e)
Return(v) == pc' = "done" /\ result' = v
Goto(l) == pc' = l /\ result' = result

Ack(op, name) == [kind |-> "ack", val |-> <<op, name>>]

\* the index a clone_mapping / clone_settings frame works on
CurIndex == IF call.op = "clone" THEN call.src_index ELSE call.index_name

\* the index a create frame works on
CreateName ==
    IF call.op = "clone"
    THEN CloneCreateTarget(call.src_index, call.dest_index)
    ELSE call.index_name

\* clone, after `mapping` is settled: derive `settings` or go on to create
AfterMapping(s) == IF ~Truthy(s) THEN "cs_exists" ELSE "create_exists"

\* clone, after the source check: derive `mapping` or go on
AfterSrcCheck(m, s) == IF ~Truthy(m) THEN "cm_exists" ELSE AfterMapping(s)

Enter(c, m, s, l) ==
    /\ pc = "idle"
    /\ call' = c
    /\ mapping' = m
    /\ settings' = s
    /\ pc' = l
    /\ pre' = indices
    /\ UNCHANGED <<indices, result, reqs>>

---------------------------------------------------------------------------
(* Calls *)

CallAccessor ==
    \E op \in Accessors, n \in IndexNames :
        Enter([NoCall EXCEPT !.op = op, !.index_name = n], PyNone, PyNone, "acc_exists")

CallCloneMapping ==
    \E n \in IndexNames, t \in DocTypeArgs :
        Enter([NoCall EXCEPT !.op = "clone_mapping", !.index_name = n, !.doc_type = t],
              PyNone, PyNone, "cm_exists")

CallSetDoctype ==
    \E m \in DoctypeMappings, t \in DocTypes :
        Enter([NoCall EXCEPT !.op = "set_doctype", !.mapping = PyDict(m), !.doc_type = PyStr(t)],
              PyDict(m), PyNone, "set_doctype")

CallCloneSettings ==
    \E n \in IndexNames :
        Enter([NoCall EXCEPT !.op = "clone_settings", !.index_name = n],
              PyNone, PyNone, "cs_exists")

CallCreate ==
    \E n \in IndexNames, b \in BodyArgs, m \in MappingArgs, s \in SettingsArgs, o \in OverwriteArgs :
        Enter([NoCall EXCEPT !.op = "create", !.index_name = n, !.body = b, !.mapping = m,
                             !.settings = s, !.overwrite = o],
              m, s, "create_exists")

CallDelete ==
    \E n \in IndexNames :
        Enter([NoCall EXCEPT !.op = "delete", !.index_name = n], PyNone, PyNone, "delete")

CallClone ==
    \E src \in IndexNames, dst \in IndexNames, m \in MappingArgs, s \in SettingsArgs,
       sz \in SizeArgs, sc \in ScriptArgs, o \in OverwriteArgs :
        Enter([NoCall EXCEPT !.op = "clone", !.src_index = src, !.dest_index = dst,
                             !.mapping = m, !.settings = s, !.size = sz, !.script = sc,
                             !.overwrite = o],
              m, s, "clone_exists")

---------------------------------------------------------------------------
(* get_info, get_mapping, get_settings, stats *)

AccessorExists ==
    /\ pc = "acc_exists"
    /\ \E ok \in BOOLEAN :
         IF ~ok THEN Raise("TRANSPORT_ERROR")
         ELSE IF AccessorAbsent(indices, call.index_name) THEN Return(PyNone)
         ELSE Goto("acc_get")
    /\ UNCHANGED <<indices, call, mapping, settings, reqs, pre>>

AccessorGet ==
    /\ pc = "acc_get"
    /\ \E ok \in BOOLEAN :
         IF ~ok THEN Raise("TRANSPORT_ERROR")
         ELSE IF ~Exists(indices, call.index_name) THEN Raise("SERVICE_NOT_FOUND")
         ELSE Return(AccessorFetch(call.op, indices[call.index_name]))
    /\ UNCHANGED <<indices, call, mapping, settings, reqs, pre>>

---------------------------------------------------------------------------
(* set_doctype, clone_mapping, clone_settings *)

SetDoctypeRun ==
    /\ pc = "set_doctype"
    /\ LET r == SetDoctype(mapping.val, call.doc_type.val)
       IN IF r.error
          THEN Raise("INVALID_MAPPING_SHAPE") /\ mapping' = mapping
          ELSE Return(PyDict(r.mapping)) /\ mapping' = PyDict(r.mapping)
    /\ UNCHANGED <<indices, call, settings, reqs, pre>>

CloneMappingExists ==
    /\ pc = "cm_exists"
    /\ \E ok \in BOOLEAN :
         IF ~ok THEN Raise("TRANSPORT_ERROR")
         ELSE IF ~Exists(indices, CurIndex) THEN Raise("INDEX_NOT_FOUND")
         ELSE Goto("cm_get")
    /\ UNCHANGED <<indices, call, mapping, settings, reqs, pre>>

CloneMappingGet ==
    /\ pc = "cm_get"
    /\ \E ok \in BOOLEAN :
         IF ~ok THEN Raise("TRANSPORT_ERROR") /\ mapping' = mapping
         ELSE IF ~Exists(indices, CurIndex) THEN Raise("SERVICE_NOT_FOUND") /\ mapping' = mapping
         ELSE LET fetched == indices[CurIndex].mappings
                  dt == IF call.op = "clone" THEN PyNone ELSE call.doc_type
                  r == IF Truthy(dt) THEN SetDoctype(fetched, dt.val)
                       ELSE [error |-> FALSE, mapping |-> fetched]
              IN IF r.error
                 THEN Raise("INVALID_MAPPING_SHAPE") /\ mapping' = mapping
                 ELSE /\ mapping' = PyDict(r.mapping)
                      /\ IF call.op = "clone"
                         THEN Goto(AfterMapping(settings))
                         ELSE Return(PyDict(r.mapping))
    /\ UNCHANGED <<indices, call, settings, reqs, pre>>

CloneSettingsExists ==
    /\ pc = "cs_exists"
    /\ \E ok \in BOOLEAN :
         IF ~ok THEN Raise("TRANSPORT_ERROR")
         ELSE IF ~Exists(indices, CurIndex) THEN Raise("INDEX_NOT_FOUND")
         ELSE Goto("cs_get")
    /\ UNCHANGED <<indices, call, mapping, settings, reqs, pre>>

CloneSettingsGet ==
    /\ pc = "cs_get"
    /\ \E ok \in BOOLEAN :
         IF ~ok THEN Raise("TRANSPORT_ERROR") /\ settings' = settings
         ELSE IF ~Exists(indices, CurIndex) THEN Raise("SERVICE_NOT_FOUND") /\ settings' = settings
         ELSE LET cloned == PyDict(SanitizeSettings(indices[CurIndex].settings))
              IN /\ settings' = cloned
                 /\ IF call.op = "clone" THEN Goto("create_exists") ELSE Return(cloned)
    /\ UNCHANGED <<indices, call, mapping, reqs, pre>>

---------------------------------------------------------------------------
(* create, delete *)

CreateExists ==
    /\ pc = "create_exists"
    /\ \E ok \in BOOLEAN :
         IF ~ok THEN Raise("TRANSPORT_ERROR")
         ELSE LET d == CreateDecision(Exists(indices, CreateName), call.overwrite)
              IN CASE d = "raise" -> Raise("ALREADY_EXISTS")
                   [] d = "delete" -> Goto("create_delete")
                   [] d = "create" -> Goto("create_create")
    /\ UNCHANGED <<indices, call, mapping, settings, reqs, pre>>

CreateDelete ==
    /\ pc = "create_delete"
    /\ reqs' = Append(reqs, [op |-> "delete", index |-> CreateName])
    /\ \E ok \in BOOLEAN :
         IF ~ok THEN Raise("TRANSPORT_ERROR") /\ indices' = indices
         ELSE Goto("create_create") /\ indices' = ServerDelete(indices, CreateName)
    /\ UNCHANGED <<call, mapping, settings, pre>>

CreateCreate ==
    /\ pc = "create_create"
    /\ LET body == CreateBody(call.body, mapping, settings)
       IN /\ reqs' = Append(reqs, [op |-> "create", index |-> CreateName, body |-> body])
          /\ \E ok \in BOOLEAN :
               IF ~ok THEN Raise("TRANSPORT_ERROR") /\ indices' = indices
               ELSE IF Exists(indices, CreateName)
               THEN Raise("SERVICE_ALREADY_EXISTS") /\ indices' = indices
               ELSE /\ indices' = ServerCreate(indices, CreateName, body)
                    /\ IF call.op = "clone"
                       THEN Goto("clone_reindex")
                       ELSE Return(Ack("create", CreateName))
    /\ UNCHANGED <<call, mapping, settings, pre>>

Delete ==
    /\ pc = "delete"
    /\ reqs' = Append(reqs, [op |-> "delete", index |-> call.index_name])
    /\ \E ok \in BOOLEAN :
         IF ~ok THEN Raise("TRANSPORT_ERROR") /\ indices' = indices
         ELSE Return(Ack("delete", call.index_name))
              /\ indices' = ServerDelete(indices, call.index_name)
    /\ UNCHANGED <<call, mapping, settings, pre>>

---------------------------------------------------------------------------
(* clone *)

CloneExists ==
    /\ pc = "clone_exists"
    /\ \E ok \in BOOLEAN :
         IF ~ok THEN Raise("TRANSPORT_ERROR")
         ELSE IF SrcMissing(indices, call.src_index) THEN Raise("INDEX_NOT_FOUND")
         ELSE Goto(AfterSrcCheck(mapping, settings))
    /\ UNCHANGED <<indices, call, mapping, settings, reqs, pre>>

CloneReindex ==
    /\ pc = "clone_reindex"
    /\ LET body == ReindexBody(call.src_index, call.dest_index, call.size, call.script)
       IN /\ reqs' = Append(reqs, [op |-> "reindex", body |-> body])
          /\ \E ok \in BOOLEAN :
               IF ~ok \/ ~Exists(indices, call.src_index) \/ ~Exists(indices, call.dest_index)
               THEN Raise("TRANSPORT_ERROR") /\ indices' = indices
               ELSE Return([kind |-> "reindex", val |-> body])
                    /\ indices' = ServerReindex(indices, body)
    /\ UNCHANGED <<call, mapping, settings, pre>>

---------------------------------------------------------------------------
(* Other callers of the same service *)

OtherDelete ==
    /\ pc # "done"
    /\ \E n \in DOMAIN indices : indices' = ServerDelete(indices, n)
    /\ UNCHANGED <<pc, call, mapping, settings, result, reqs, pre>>

OtherCreate ==
    /\ pc # "done"
    /\ \E n \in IndexNames \ DOMAIN indices :
         indices' = ServerCreate(indices, n, PyDict(ArgBody))
    /\ UNCHANGED <<pc, call, mapping, settings, result, reqs, pre>>

---------------------------------------------------------------------------
(* Specifications *)

InitWith(servers) ==
    /\ indices \in servers
    /\ pre = indices
    /\ pc = "idle"
    /\ call = NoCall
    /\ mapping = PyNone
    /\ settings = PyNone
    /\ result = Pending
    /\ reqs = << >>

\* one caller, one method call
Init == InitWith(InitServers(MainMeta, MainUsers))

Next ==
    \/ CallAccessor \/ AccessorExists \/ AccessorGet
    \/ CallCloneMapping \/ CloneMappingExists \/ CloneMappingGet
    \/ CallCloneSettings \/ CloneSettingsExists \/ CloneSettingsGet
    \/ CallCreate \/ CreateExists \/ CreateDelete \/ CreateCreate
    \/ CallDelete \/ Delete
    \/ CallClone \/ CloneExists \/ CloneReindex

Spec == Init /\ [][Next]_vars

\* an accessor call while other callers create and delete indices
NextConc ==
    \/ CallAccessor \/ AccessorExists \/ AccessorGet
    \/ OtherDelete \/ OtherCreate

SpecConc == Init /\ [][NextConc]_vars

\* clone_settings over every combination of service-assigned keys
InitSettingsAll == InitWith(InitServers(SUBSET MetaKeys, SUBSET UserKeys))

NextSettings == CallCloneSettings \/ CloneSettingsExists \/ CloneSettingsGet

SpecSettings == InitSettingsAll /\ [][NextSettings]_vars

\* set_doctype over every mapping of up to three document types
InitDoctype == InitWith({EmptyDict})

NextDoctype == CallSetDoctype \/ SetDoctypeRun

SpecDoctype == InitDoctype /\ [][NextDoctype]_vars

---------------------------------------------------------------------------
(* Vocabulary of the properties *)

TransportError == PyError("TRANSPORT_ERROR")

\* index n is as it was when the method was entered
Untouched(n) ==
    /\ Exists(indices, n) <=> Exists(pre, n)
    /\ Exists(pre, n) => indices[n] = pre[n]

OthersUntouched(d) == \A n \in IndexNames \ {d} : Untouched(n)

\* the keys of a settings "index" sub-mapping that the user configures
UserPart(sub) == [k \in DOMAIN sub \ MetaKeys |-> sub[k]]

\* what a Python value holds when read as a dict (None: nothing)
DictOf(v) == IF v.kind = "dict" THEN v.val ELSE EmptyDict

IndexSubOf(v) == IF "index" \in DOMAIN DictOf(v) THEN DictOf(v)["index"] ELSE EmptyDict

\* index d is an index just created from the clone's mapping and settings,
\* holding no documents
FreshEmpty(d) ==
    /\ Exists(indices, d)
    /\ indices[d].docs = {}
    /\ indices[d].mappings = DictOf(mapping)
    /\ UserPart(indices[d].settings["index"]) = UserPart(IndexSubOf(settings))

ReindexAt == {i \in 1..Len(reqs) : reqs[i].op = "reindex"}
CreateAt == {i \in 1..Len(reqs) : reqs[i].op = "create"}

---------------------------------------------------------------------------
(* Properties *)

\* C1: a clone whose source index does not exist sends no delete, create or
\* reindex request, never gets past its source check, leaves every index
\* of the service as it was, and ends with INDEX_NOT_FOUND (or with the
\* transport failure of the check itself), whatever dest and overwrite are.
C1_CloneMissingSourceNoWrites ==
    (call.op = "clone" /\ ~Exists(pre, call.src_index)) =>
        /\ reqs = << >>
        /\ indices = pre
        /\ pc \in {"clone_exists", "done"}
        /\ pc = "done" => result \in {PyError("INDEX_NOT_FOUND"), TransportError}

C1_Witness ==
    /\ call.op = "clone"
    /\ ~Exists(pre, call.src_index)
    /\ Exists(pre, call.dest_index)
    /\ Truthy(call.overwrite)
    /\ Truthy(call.mapping) /\ Truthy(call.settings)
    /\ pc = "done"
    /\ result = PyError("INDEX_NOT_FOUND")

\* C2: create on an existing index with a falsy overwrite (None or False),
\* called directly or by clone on its destination, sends no request, leaves
\* the service as it was, never reaches its delete or create step nor the
\* clone's reindex, and ends with ALREADY_EXISTS (or a transport failure of
\* a check).
C2_CreateCollisionNoWrites ==
    LET direct == call.op = "create" /\ Exists(pre, call.index_name)
        viaClone == /\ call.op = "clone"
                    /\ Exists(pre, call.src_index)
                    /\ Exists(pre, call.dest_index)
    IN ((direct \/ viaClone) /\ ~Truthy(call.overwrite)) =>
        /\ reqs = << >>
        /\ indices = pre
        /\ pc \notin {"create_delete", "create_create", "clone_reindex"}
        /\ pc = "done" => result \in {PyError("ALREADY_EXISTS"), TransportError}

C2_Witness ==
    /\ call.op = "clone"
    /\ call.src_index # call.dest_index
    /\ Exists(pre, call.src_index)
    /\ Exists(pre, call.dest_index)
    /\ pre[call.dest_index].docs # {}
    /\ call.overwrite = PyBool(FALSE)
    /\ pc = "done"
    /\ result = PyError("ALREADY_EXISTS")

\* C3: create(name, mapping, settings, overwrite=True) on an existing index
\* sends the delete, then the create; between the two the index is absent;
\* when the call returns the index holds the new mapping, the new user
\* settings, none of the old service-assigned settings and no documents,
\* and the other indices are as they were; when
\* the create is refused after the delete the index stays absent.
C3_OverwriteDeletesThenCreates ==
    (/\ call.op = "create"
     /\ Exists(pre, call.index_name)
     /\ Truthy(call.overwrite)
     /\ ~Truthy(call.body)) =>
        LET n == call.index_name
            del == [op |-> "delete", index |-> n]
            cre == [op |-> "create", index |-> n,
                    body |-> PyDict([settings |-> call.settings, mappings |-> call.mapping])]
        IN /\ pc = "create_create" => (reqs = <<del>> /\ ~Exists(indices, n))
           /\ (pc = "done" /\ result.kind = "ack") =>
                 /\ reqs = <<del, cre>>
                 /\ Exists(indices, n)
                 /\ indices[n].mappings = DictOf(call.mapping)
                 /\ UserPart(indices[n].settings["index"]) = UserPart(IndexSubOf(call.settings))
                 /\ \A k \in MetaKeys \cap DOMAIN pre[n].settings["index"] :
                       indices[n].settings["index"][k] # pre[n].settings["index"][k]
                 /\ indices[n].docs = {}
                 /\ OthersUntouched(n)
           /\ (pc = "done" /\ result.kind = "error" /\ Len(reqs) = 2) => ~Exists(indices, n)

C3_Witness ==
    /\ call.op = "create"
    /\ Exists(pre, call.index_name)
    /\ pre[call.index_name].docs # {}
    /\ call.overwrite = PyBool(TRUE)
    /\ call.body = PyNone
    /\ call.mapping = PyDict(ArgMapping)
    /\ call.settings = PyDict(ArgSettings)
    /\ pc = "done"
    /\ result.kind = "ack"
    /\ indices[call.index_name].mappings = ArgMapping

\* C4 (as claimed): a failed clone changes nothing but the destination,
\* which is as it was or a freshly created, empty index.
C4_Original ==
    (/\ call.op = "clone"
     /\ call.src_index # call.dest_index
     /\ pc = "done"
     /\ result.kind = "error") =>
        /\ OthersUntouched(call.dest_index)
        /\ Untouched(call.dest_index) \/ FreshEmpty(call.dest_index)

\* C4 (amended): a failed clone leaves every index but the destination as
\* it was; the destination is as it was, or a freshly created empty index,
\* or, when it existed and overwrite is truthy, absent; with a falsy
\* overwrite the only change is at most a freshly created, empty
\* destination that did not exist before; a destination created before a
\* refused reindex is still there, empty.
C4_FailedCloneEffects ==
    (call.op = "clone" /\ pc = "done" /\ result.kind = "error") =>
        LET d == call.dest_index
        IN /\ OthersUntouched(d)
           /\ \/ Untouched(d)
              \/ FreshEmpty(d)
              \/ Exists(pre, d) /\ Truthy(call.overwrite) /\ ~Exists(indices, d)
           /\ ~Truthy(call.overwrite) =>
                 (Untouched(d) \/ (~Exists(pre, d) /\ FreshEmpty(d)))
           /\ ReindexAt # {} => FreshEmpty(d)

C4_Witness ==
    /\ call.op = "clone"
    /\ pc = "done"
    /\ result = TransportError
    /\ ReindexAt # {}
    /\ ~Exists(pre, call.dest_index)
    /\ pre[call.src_index].docs # {}
    /\ FreshEmpty(call.dest_index)

\* C5 (as claimed): the create request of a clone carries the source's
\* mapping when no mapping was passed and the passed mapping otherwise, and
\* the source's settings without the four service-assigned keys when no
\* settings were passed and the passed settings otherwise.
C5_Original ==
    call.op = "clone" =>
        \A i \in CreateAt :
            LET src == pre[call.src_index]
                derivedSettings == [index |-> UserPart(src.settings["index"])]
            IN /\ reqs[i].index = call.dest_index
               /\ reqs[i].body.val.mappings =
                     (IF call.mapping = PyNone THEN PyDict(src.mappings) ELSE call.mapping)
               /\ reqs[i].body.val.settings =
                     (IF call.settings = PyNone THEN PyDict(derivedSettings) ELSE call.settings)

\* C6: clone_settings on an existing index returns settings whose "index"
\* sub-mapping holds none of creation_date, version, uuid, provided_name,
\* whichever of the four the source holds; it raises nothing of its own and
\* sends no write request, and the service is as it was.
C6_CloneSettingsStripsMetadata ==
    call.op = "clone_settings" =>
        /\ reqs = << >>
        /\ indices = pre
        /\ (pc = "done" /\ Exists(pre, call.index_name)) =>
              \/ result = TransportError
              \/ /\ result.kind = "dict"
                 /\ DOMAIN result.val["index"] \cap MetaKeys = {}

C6_Witness ==
    /\ call.op = "clone_settings"
    /\ pc = "done"
    /\ Exists(pre, call.index_name)
    /\ DOMAIN pre[call.index_name].settings["index"] = {"version", "uuid", "number_of_shards"}
    /\ result.kind = "dict"
    /\ DOMAIN result.val["index"] = {"number_of_shards"}

\* C7 (as claimed): an accessor that ends while its index does not exist
\* has returned None, also when other callers delete the index during the
\* call.
C7_Original ==
    (call.op \in Accessors /\ pc = "done" /\ ~Exists(indices, call.index_name)) =>
        result \in {PyNone, TransportError}

\* C7 (amended): no step of get_info, get_mapping, get_settings or stats
\* changes the service or sends a write request; when the index is absent
\* at the accessor's existence check the accessor returns None at once (or
\* the transport failure of the check); when the index is deleted after the
\* check, the fetch raises the service's not-found error.
C7_AccessorAbsentAtCheck ==
    [][(call.op \in Accessors /\ pc' # pc) =>
          /\ indices' = indices
          /\ reqs' = << >>
          /\ (pc = "acc_exists" /\ ~Exists(indices, call.index_name)) =>
                (pc' = "done" /\ result' \in {PyNone, TransportError})
          /\ (pc = "acc_get" /\ ~Exists(indices, call.index_name)) =>
                (pc' = "done" /\ result' \in {PyError("SERVICE_NOT_FOUND"), TransportError})]_vars

C7_Witness ==
    /\ call.op \in Accessors
    /\ pc = "done"
    /\ ~Exists(indices, call.index_name)
    /\ Exists(pre, call.index_name)
    /\ result = PyNone

\* C8: set_doctype on a mapping with zero, two or more keys raises
\* INVALID_MAPPING_SHAPE and leaves the mapping as it was; on a one-key
\* mapping whose key is the new type it returns the mapping as it was;
\* otherwise the mapping ends with the new type as its only key, bound to
\* the schema the old key held.
C8_SetDoctype ==
    (call.op = "set_doctype" /\ pc = "done") =>
        LET m0 == call.mapping.val
            t == call.doc_type.val
        IN IF Cardinality(DOMAIN m0) # 1
           THEN result = PyError("INVALID_MAPPING_SHAPE") /\ mapping = call.mapping
           ELSE LET old == CHOOSE k \in DOMAIN m0 : TRUE
                IN IF old = t
                   THEN result = call.mapping /\ mapping = call.mapping
                   ELSE /\ result.kind = "dict"
                        /\ DOMAIN result.val = {t}
                        /\ result.val[t] = m0[old]
                        /\ mapping = result

C8_Witness ==
    /\ call.op = "set_doctype"
    /\ pc = "done"
    /\ call.mapping = PyDict([doc |-> "f_text"])
    /\ call.doc_type = PyStr("row")
    /\ result = PyDict([row |-> "f_text"])

\* C9 (as claimed): the reindex body has a size entry exactly when a size
\* was passed and a script entry exactly when a script was passed.
C9_Original ==
    call.op = "clone" =>
        \A i \in ReindexAt :
            /\ "size" \in DOMAIN reqs[i].body <=> call.size # PyNone
            /\ "script" \in DOMAIN reqs[i].body <=> call.script # PyNone

\* C9 (amended): a clone sends at most one reindex request, as its last
\* request, right after the create of the destination, which has succeeded
\* (the destination exists, and is empty until the reindex is sent); the
\* body is {source: {index: src}, dest: {index: dst}} plus the size when
\* the size passed is truthy (not None, not 0) and the script when the
\* script passed is truthy (not None, not empty); the call ends with that
\* request, returning its result.
C9_ReindexOnceAfterCreate ==
    call.op = "clone" =>
        /\ Cardinality(ReindexAt) <= 1
        /\ pc = "clone_reindex" =>
              /\ reqs # << >>
              /\ reqs[Len(reqs)].op = "create"
              /\ reqs[Len(reqs)].index = call.dest_index
              /\ FreshEmpty(call.dest_index)
        /\ \A i \in ReindexAt :
              LET b == reqs[i].body
              IN /\ i = Len(reqs) /\ i > 1
                 /\ reqs[i - 1].op = "create"
                 /\ reqs[i - 1].index = call.dest_index
                 /\ Exists(indices, call.dest_index)
                 /\ pc = "done"
                 /\ DOMAIN b = {"source", "dest"}
                                  \cup (IF Truthy(call.size) THEN {"size"} ELSE {})
                                  \cup (IF Truthy(call.script) THEN {"script"} ELSE {})
                 /\ b["source"] = [index |-> call.src_index]
                 /\ b["dest"] = [index |-> call.dest_index]
                 /\ "size" \in DOMAIN b => b["size"] = call.size
                 /\ "script" \in DOMAIN b => b["script"] = call.script
                 /\ result.kind # "error" => result = [kind |-> "reindex", val |-> b]

C9_Witness ==
    /\ call.op = "clone"
    /\ call.src_index # call.dest_index
    /\ pc = "done"
    /\ result.kind = "reindex"
    /\ reqs[Len(reqs)].body =
          [source |-> [index |-> call.src_index], dest |-> [index |-> call.dest_index],
           size |-> PyInt(SizeLimit), script |-> PyDict(ArgScript)]

\* C10 (as claimed): after a clone of an existing source has returned, the
\* source exists with the mapping, settings and documents it had before
\* the call, also when dest is the source and overwrite is truthy.
C10_Original ==
    (/\ call.op = "clone"
     /\ Exists(pre, call.src_index)
     /\ pc = "done"
     /\ result.kind = "reindex") =>
        Untouched(call.src_index)

====
